---- MODULE Spec2Model ----
(***************************************************************************)
(* The OrangeSlice demo catalog.                                           *)
(*                                                                         *)
(*  - the catalog view (src/src/components/UserInterface.tsx): the local   *)
(*    mirror of Entries and enriched Associations, the search text, the     *)
(*    selected filter tags, and the View Filter getFilteredDemos;           *)
(*  - the administrator view (src/src/App.tsx): the form, and the save and  *)
(*    delete workflows against the remote data gateway.                     *)
(*                                                                         *)
(* The remote data gateway is an external collaborator: a call resolves    *)
(* with its data, or rejects (throws at the await).  An update or a delete *)
(* of a row that does not exist rejects; a create of an Association does   *)
(* not look at the Entry it names; list returns its rows by increasing id. *)
(*                                                                         *)
(* SpecFilter is the catalog view over every bounded mirror; Spec is the   *)
(* administrator view from a store that holds one tagged Entry.  SpecForm  *)
(* is the administrator's form with blank and filled fields; SpecStream is *)
(* the mount effect of the catalog view with its two live queries;         *)
(* SpecOverlap is the administrator view with overlapping saves and the    *)
(* order of their Association writes; SpecAccess is the router with the    *)
(* administrator login and the authorization rules of the data schema;     *)
(* SpecTags is the runs of initializeTags on the Tag table; SpecBusy is    *)
(* the administrator's form worked on while a save is in flight.           *)
(***************************************************************************)
EXTENDS Integers, Sequences, FiniteSets, TLC

VARIABLES
    \* ---- catalog view (UserInterface) ----
    demos,              \* Entry sequence of the local mirror
    demoTags,           \* enriched Association sequence of the local mirror
    availableTags,      \* tags loaded by loadTags
    searchTerm,         \* search text
    selectedFilterTags, \* selected filter tag ids
    isLoading,          \* loading indicator
    visible,            \* what the last render got from getFilteredDemos()
    renders             \* renders since one of the four filter inputs last changed (capped)

VARIABLES
    \* ---- remote data gateway ----
    Demo,               \* Entry table: id -> fields
    DemoTag,            \* Association table: a set of [id, demoId, tagId]
    nextDemoId,         \* next fresh Entry id
    hasModels,          \* whether the backend exposes the Demo and Tag models
    \* ---- administrator view (App) ----
    debugInfo,          \* debug log, a sequence of lines
    adminLoading,       \* isLoading of App
    modelExists,
    adminDemos,         \* demos of App: the local mirror of the Entry table
    adminDemoTags,      \* demoTags of App: the local mirror, enriched
    adminTags,          \* availableTags of App
    isFormOpen,
    editingId,          \* 0 stands for null
    formData,
    selectedTags,
    formErrors,
    flows,              \* the runs of handleSubmit and deleteDemo, by slot
    rejects,            \* how many awaited calls the gateway rejected so far
    overlaps,           \* how many runs started while another run was in flight
    asked               \* what window.confirm returned in the step just taken, if asked

VARIABLES
    \* ---- the mount effect of the catalog view and its two live queries ----
    view,                \* "constructed", "mounted" (effect ran) or "unmounted"
    demoSubscription,    \* "none", "open", "errored" or "unsubscribed"
    demoTagSubscription, \* the same, for the Association stream
    cleanup,             \* whether the effect returned its cleanup function
    handlers,            \* the runs of demoTagSubscription.next, in delivery order
    demoPushes           \* how many Entry pushes were handled (capped)

VARIABLES
    \* ---- the order of the Association writes at the gateway ----
    writeLog             \* since the gateway was last idle: the runs, and which run
                         \* made each Association write, in the order of the writes

VARIABLES
    \* ---- the router with the administrator login, and the gateway's rules ----
    authLoading,         \* isLoading of the router: the stored login is not read yet
    isAuthenticated,
    currentUser,         \* "" when nobody is logged in
    storedUser,          \* localStorage item demo_catalog_user, "" when absent
    path,                \* the location the router matches
    loginData,           \* the two text fields of the login form
    loginError,          \* the error line of the login form, "" when none
    request              \* the last operation asked of the gateway and its outcome

VARIABLES
    \* ---- the Tag table and the runs of initializeTags ----
    Tag,                 \* the remote Tag table: the names, a tag's id is its position
    initRuns,            \* the runs of initializeTags, one per run of the mount effect

    \* ---- history of the form's tag selection ----
    pristine             \* .form: the selection is still the one openEditForm set;
                         \* .run: so it was when the save in flight was submitted

uiVars == <<demos, demoTags, availableTags, searchTerm, selectedFilterTags,
            isLoading, visible, renders>>

remoteVars == <<Demo, DemoTag, nextDemoId, hasModels>>

formVars == <<isFormOpen, editingId, formData, selectedTags, formErrors>>

mirrorVars == <<adminLoading, modelExists, adminDemos, adminDemoTags, adminTags>>

adminVars == <<debugInfo, mirrorVars, formVars, flows>>

budgetVars == <<rejects, overlaps>>

streamVars == <<view, demoSubscription, demoTagSubscription, cleanup, handlers,
                demoPushes>>

accessVars == <<authLoading, isAuthenticated, currentUser, storedUser, path, request,
                loginData, loginError>>

lateVars == <<Tag, initRuns, pristine>>

extraVars == <<streamVars, writeLog, accessVars, lateVars>>

vars == <<uiVars, remoteVars, adminVars, budgetVars, asked, extraVars>>

(***************************************************************************)
(* Bounds and value sets                                                   *)
(***************************************************************************)
MaxEntries == 2

Range(s) == {s[i] : i \in 1..Len(s)}

EntryIds == 1..MaxEntries
TagSeq == <<"t1", "t2">>
TagIds == Range(TagSeq)

Reverse(s) == [i \in 1..Len(s) |-> s[Len(s) + 1 - i]]

\* Text is a sequence of characters; "a"/"A" and "b"/"B" are case variants.
Null == [present |-> FALSE, text |-> <<>>]
Str(t) == [present |-> TRUE, text |-> t]

Names == {Null, Str(<<"a", "B">>), Str(<<"B", "a", "-">>)}
SearchTerms == {<<>>, <<"A">>, <<"a", "b">>, <<"b", "b">>}

\* String.prototype.toLowerCase, character by character
LowerChar(c) ==
    CASE c = "A" -> "a"
      [] c = "B" -> "b"
      [] OTHER -> c

toLowerCase(t) == [i \in 1..Len(t) |-> LowerChar(t[i])]

\* String.prototype.includes
includes(hay, needle) ==
    \E off \in 0..(Len(hay) - Len(needle)) :
        SubSeq(hay, off + 1, off + Len(needle)) = needle


(***************************************************************************)
(* Administrator view: App.tsx, state and helpers                          *)
(***************************************************************************)
\* Bounds of the administrator model
MaxDemoId == 2      \* Entry ids the gateway hands out
MaxCopies == 2      \* Associations of one (Entry, Tag) pair that can exist at once
MaxOverlaps == 1    \* runs started while another run is in flight
MaxLog == 1         \* lines of the debug log that are kept (its head)
MaxRejects == 1     \* awaited calls the gateway rejects
MaxMounts == 2      \* runs of the mount effect of the administrator view

NoId == 0
DemoIds == 1..MaxDemoId
Slots == 1..(MaxOverlaps + 1)
Mounts == 1..MaxMounts

Fields == {"projectName", "githubLink", "projectLink", "imageUrl"}

EmptyForm == [f \in Fields |-> <<>>]

NoErrors == [f \in Fields \cup {"tags"} |-> FALSE]

\* what the administrator types into a field
Typed(f) == IF f = "projectName" THEN {<<" ", "w">>} ELSE {<<"u">>}

\* String.prototype.trim
RECURSIVE trimStart(_)
trimStart(t) == IF t # <<>> /\ Head(t) = " " THEN trimStart(Tail(t)) ELSE t

trim(t) == Reverse(trimStart(Reverse(trimStart(t))))

\* a line of the debug log
Line(text, arg) == [text |-> text, arg |-> arg]

\* setDebugInfo(prev => prev + "\n" + line); lines past MaxLog are not kept
LogAppend(log, line) == IF Len(log) < MaxLog THEN Append(log, line) ELSE log

\* the records of a finite set, by increasing id
RECURSIVE SortById(_)
SortById(S) ==
    IF S = {} THEN <<>>
    ELSE LET x == CHOOSE y \in S : \A z \in S : y.id <= z.id
         IN  <<x>> \o SortById(S \ {x})

\* The id the gateway gives an Association.  Ids are opaque to the program: an
\* Association is named after its Entry, its Tag and a copy number, and a name
\* is given again only when no Association and no pending delete holds it.
TagIndex(tagId) == CHOOSE i \in 1..Len(TagSeq) : TagSeq[i] = tagId

AssocId(demoId, tagId, c) ==
    ((demoId - 1) * Len(TagSeq) + (TagIndex(tagId) - 1)) * MaxCopies + c

\* DemoTag.list({filter: {demoId: {eq: id}}}).data
ListDemoTags(id) == SortById({a \in DemoTag : a.demoId = id})

\* the items observeQuery delivers for the Entry table
DemoItemsNow ==
    SortById({[id |-> d, fields |-> Demo[d]] : d \in DOMAIN Demo})

\* the items observeQuery delivers for the Association table, after the
\* handler looked up each tag
DemoTagItemsNow ==
    SortById({[id |-> a.id, demoId |-> a.demoId, tagId |-> a.tagId, tag |-> a.tagId] :
                a \in {b \in DemoTag : b.tagId \in TagIds}})

NoStore == [Demo |-> <<>>, DemoTag |-> {}]

Idle ==
    [kind |-> "idle", pc |-> "idle", editingId |-> NoId, formData |-> EmptyForm,
     selectedTags |-> <<>>, demoId |-> NoId, items |-> <<>>, i |-> 0,
     trace |-> <<>>, alone |-> FALSE, before |-> NoStore]

InFlight(k) == flows[k].kind # "idle"

\* an empty store
StoreEmpty ==
    /\ Demo = <<>>
    /\ DemoTag = {}
    /\ nextDemoId = 1

\* a store left by an earlier session: one Entry, tagged t1
StoreOneEntry ==
    /\ Demo = (1 :> [EmptyForm EXCEPT !.projectName = <<"v">>, !.githubLink = <<"u">>,
                                       !.projectLink = <<"u">>, !.imageUrl = <<"u">>])
    /\ DemoTag = {[id |-> AssocId(1, "t1", 1), demoId |-> 1, tagId |-> "t1"]}
    /\ nextDemoId = 2

\* the administrator view as constructed, before its mount effect ran
AppConstructed ==
    /\ debugInfo = <<Line("Initializing...", "")>>
    /\ adminLoading = TRUE
    /\ modelExists = FALSE
    /\ adminDemos = <<>>
    /\ adminDemoTags = <<>>
    /\ adminTags = <<>>
    /\ isFormOpen = FALSE
    /\ editingId = NoId
    /\ formData = EmptyForm
    /\ selectedTags = <<>>
    /\ formErrors = NoErrors
    /\ flows = [k \in Slots |-> Idle]

\* the mount effect of the catalog view has not run
StreamConstructed ==
    /\ view = "constructed"
    /\ demoSubscription = "none"
    /\ demoTagSubscription = "none"
    /\ cleanup = FALSE
    /\ handlers = <<>>
    /\ demoPushes = 0

\* no run has started and no Association was written
NoWrites == [started |-> 0, run |-> [k \in Slots |-> 0], order |-> <<>>]

\* no operation was asked of the gateway yet
NoRequest == [caller |-> "", model |-> "", operation |-> "", outcome |-> ""]

\* the login form with nothing typed
NoLogin == [username |-> "", password |-> ""]

\* the router as constructed, at the catalog's path
RouterConstructed ==
    /\ authLoading = TRUE
    /\ isAuthenticated = FALSE
    /\ currentUser = ""
    /\ path = "/"
    /\ request = NoRequest
    /\ loginData = NoLogin
    /\ loginError = ""

\* the mount effect has not run, initializeTags neither
NoRun == [pc |-> "none", i |-> 0]

\* the Tag table holds the predefined tags, no run of initializeTags has started
\* and no edit form was opened
LateConstructed ==
    /\ Tag = TagSeq
    /\ initRuns = [k \in Mounts |-> NoRun]
    /\ pristine = [form |-> FALSE, run |-> FALSE]

\* nobody's login is stored in the browser
ExtraConstructed ==
    /\ StreamConstructed /\ writeLog = NoWrites /\ RouterConstructed /\ storedUser = ""
    /\ LateConstructed

\* the catalog view as constructed
CatalogConstructed ==
    /\ demos = <<>>
    /\ demoTags = <<>>
    /\ availableTags = <<>>
    /\ searchTerm = <<>>
    /\ selectedFilterTags = <<>>
    /\ isLoading = TRUE
    /\ visible = <<>>
    /\ renders = 0

(***************************************************************************)
(* Administrator view: mount effect, subscriptions, form handlers          *)
(***************************************************************************)

\* useEffect(() => {...}, []) of App
Mount ==
    /\ debugInfo = <<Line("Initializing...", "")>>
    /\ \/ /\ hasModels
          /\ debugInfo' =
                LogAppend(LogAppend(<<Line("Checking available models...", "")>>,
                                    Line("Available models: ", "Demo, Tag, DemoTag")),
                          Line("Demo and Tag models exist!", ""))
          /\ modelExists' = TRUE
          /\ UNCHANGED adminLoading
       \/ /\ ~hasModels
          /\ debugInfo' =
                LogAppend(LogAppend(<<Line("Checking available models...", "")>>,
                                    Line("Available models: ", "")),
                          Line("Demo or Tag models don't exist yet!", ""))
          /\ modelExists' = FALSE
          /\ adminLoading' = FALSE
    /\ UNCHANGED <<adminDemos, adminDemoTags, adminTags, formVars, flows,
                   remoteVars, uiVars>>

\* initializeTags, the Tag table holding the predefined tags already: the first
\* list is not empty, nothing is created, the second list fills availableTags
initializeTags ==
    /\ modelExists
    /\ adminTags = <<>>
    /\ adminTags' = TagSeq
    /\ UNCHANGED <<debugInfo, adminLoading, modelExists, adminDemos, adminDemoTags,
                   formVars, flows, remoteVars, uiVars>>

\* demoSubscription.next
DemoPush ==
    /\ modelExists
    /\ adminLoading \/ adminDemos # DemoItemsNow
    /\ debugInfo' = LogAppend(debugInfo,
                              Line("Demo data received: ", ToString(Len(DemoItemsNow))))
    /\ adminDemos' = DemoItemsNow
    /\ adminLoading' = FALSE
    /\ UNCHANGED <<modelExists, adminDemoTags, adminTags, formVars, flows,
                   remoteVars, uiVars>>

\* demoTagSubscription.next, its tag lookups included
DemoTagPush ==
    /\ modelExists
    /\ adminDemoTags # DemoTagItemsNow
    /\ debugInfo' = LogAppend(debugInfo,
                              Line("DemoTag data received: ", ToString(Len(DemoTagItemsNow))))
    /\ adminDemoTags' = DemoTagItemsNow
    /\ UNCHANGED <<adminLoading, modelExists, adminDemos, adminTags, formVars, flows,
                   remoteVars, uiVars>>

FormShown == isFormOpen /\ ~adminLoading

\* onClick={() => setIsFormOpen(true)}
openCreateForm ==
    /\ ~isFormOpen
    /\ isFormOpen' = TRUE
    /\ UNCHANGED <<editingId, formData, selectedTags, formErrors, debugInfo,
                   mirrorVars, flows, remoteVars, uiVars>>

openEditForm(demo) ==
    /\ ~adminLoading
    /\ demo \in Range(adminDemos)
    /\ formData' = demo.fields
    /\ selectedTags' =
          LET ofDemo(dt) == dt.demoId = demo.id
              mine == SelectSeq(adminDemoTags, ofDemo)
          IN  [j \in 1..Len(mine) |-> mine[j].tagId]
    /\ editingId' = demo.id
    /\ isFormOpen' = TRUE
    /\ UNCHANGED <<formErrors, debugInfo, mirrorVars, flows, remoteVars, uiVars>>

handleChange(name, value) ==
    /\ FormShown
    /\ formData' = [formData EXCEPT ![name] = value]
    /\ formErrors' = IF formErrors[name] THEN [formErrors EXCEPT ![name] = FALSE]
                     ELSE formErrors
    /\ UNCHANGED <<isFormOpen, editingId, selectedTags, debugInfo, mirrorVars, flows,
                   remoteVars, uiVars>>

handleTagToggle(tagId) ==
    /\ FormShown
    /\ tagId \in Range(adminTags)
    /\ LET other(id) == id # tagId
           newTags == IF tagId \in Range(selectedTags)
                      THEN SelectSeq(selectedTags, other)
                      ELSE Append(selectedTags, tagId)
       IN  /\ selectedTags' = newTags
           /\ formErrors' = IF Len(newTags) > 0 /\ formErrors.tags
                            THEN [formErrors EXCEPT !.tags = FALSE]
                            ELSE formErrors
    /\ UNCHANGED <<isFormOpen, editingId, formData, debugInfo, mirrorVars, flows,
                   remoteVars, uiVars>>

resetForm ==
    /\ FormShown
    /\ isFormOpen' = FALSE
    /\ editingId' = NoId
    /\ formData' = EmptyForm
    /\ selectedTags' = <<>>
    /\ formErrors' = NoErrors
    /\ UNCHANGED <<debugInfo, mirrorVars, flows, remoteVars, uiVars>>

\* a validateForm that compared the raw field text with ""
validateFormNoTrim ==
    [f \in Fields \cup {"tags"} |->
        IF f = "tags" THEN Len(selectedTags) = 0 ELSE formData[f] = <<>>]

\* the errors validateForm computes
validateForm ==
    [f \in Fields \cup {"tags"} |->
        IF f = "tags" THEN Len(selectedTags) = 0 ELSE trim(formData[f]) = <<>>]

FormValid == \A f \in DOMAIN validateForm : ~validateForm[f]

(***************************************************************************)
(* Administrator view: the save and delete workflows                       *)
(*                                                                         *)
(* A run of handleSubmit or deleteDemo occupies a slot of flows.  Its pc   *)
(* names the remote call it awaits; trace lists the calls it has issued,   *)
(* the awaited one last.  A step of a run is the settlement of the awaited *)
(* call together with the code up to the next await.                       *)
(***************************************************************************)
Call(name, id, tag) == [call |-> name, id |-> id, tag |-> tag]

OthersInFlight == \E j \in Slots : InFlight(j)

HasFreeSlot == \E k \in Slots : ~InFlight(k)

FreeSlot == CHOOSE k \in Slots : ~InFlight(k) /\ \A j \in 1..(k - 1) : InFlight(j)

\* flows after a new run took the free slot: the runs in flight are no longer alone
Started(rec) ==
    [j \in Slots |->
        IF j = FreeSlot THEN rec
        ELSE IF InFlight(j) THEN [flows[j] EXCEPT !.alone = FALSE, !.before = NoStore]
        ELSE flows[j]]

\* a run issues its next call
Issue(f, name, id, tag) ==
    [f EXCEPT !.pc = name, !.trace = Append(f.trace, Call(name, id, tag))]

\* a run ends and leaves its slot
Ended == Idle

\* a handleSubmit that holds a submitting lock
handleSubmitLocked ==
    /\ FormShown
    /\ modelExists
    /\ FormValid
    /\ HasFreeSlot
    /\ ~OthersInFlight
    /\ formErrors' = validateForm
    /\ LET f == [Idle EXCEPT !.kind = "save", !.editingId = editingId,
                             !.formData = formData, !.selectedTags = selectedTags,
                             !.alone = TRUE,
                             !.before = [Demo |-> Demo, DemoTag |-> DemoTag]]
       IN  flows' = Started(IF editingId # NoId
                            THEN Issue(f, "Demo.update", editingId, "")
                            ELSE Issue(f, "Demo.create", NoId, ""))
    /\ UNCHANGED <<debugInfo, isFormOpen, editingId, formData, selectedTags, mirrorVars,
                   remoteVars, uiVars>>

handleSubmit ==
    /\ FormShown
    /\ \/ /\ ~modelExists
          /\ debugInfo' =
                <<Line("Cannot submit: Demo model is not available in the backend yet.", "")>>
          /\ UNCHANGED <<formErrors, flows>>
       \/ /\ modelExists
          /\ ~FormValid
          /\ formErrors' = validateForm
          /\ UNCHANGED <<debugInfo, flows>>
       \/ /\ modelExists
          /\ FormValid
          /\ HasFreeSlot
          /\ formErrors' = validateForm
          /\ LET f == [Idle EXCEPT !.kind = "save", !.editingId = editingId,
                                   !.formData = formData, !.selectedTags = selectedTags,
                                   !.alone = ~OthersInFlight,
                                   !.before = IF OthersInFlight THEN NoStore
                                              ELSE [Demo |-> Demo, DemoTag |-> DemoTag]]
             IN  flows' = Started(IF editingId # NoId
                                  THEN Issue(f, "Demo.update", editingId, "")
                                  ELSE Issue(f, "Demo.create", NoId, ""))
          /\ UNCHANGED debugInfo
    /\ UNCHANGED <<isFormOpen, editingId, formData, selectedTags, mirrorVars,
                   remoteVars, uiVars>>

\* after the delete loop of an edit, or the create of an Entry: the loop that
\* creates one Association per selected tag, or the form reset when it is empty
CreateLoop(f, i) ==
    IF i <= Len(f.selectedTags)
    THEN Issue([f EXCEPT !.i = i], "DemoTag.create", f.demoId, f.selectedTags[i])
    ELSE Ended

\* the form reset that ends handleSubmit
FormAfter(f) ==
    IF f = Ended
    THEN /\ formData' = EmptyForm
         /\ selectedTags' = <<>>
         /\ isFormOpen' = FALSE
    ELSE UNCHANGED <<formData, selectedTags, isFormOpen>>

\* await client.models.Demo.update(...) resolves
SaveUpdated(k) ==
    LET f == flows[k] IN
    /\ f.kind = "save" /\ f.pc = "Demo.update"
    /\ f.editingId \in DOMAIN Demo
    /\ Demo' = [Demo EXCEPT ![f.editingId] = f.formData]
    /\ flows' = [flows EXCEPT ![k] =
                    Issue([f EXCEPT !.demoId = f.editingId], "DemoTag.list", f.editingId, "")]
    /\ UNCHANGED <<DemoTag, nextDemoId, hasModels, debugInfo,
                   mirrorVars, formVars, uiVars>>

\* an edit that created the new Associations without deleting the old ones
SaveListedNoDeletes(k) ==
    LET f == flows[k]
        items == ListDemoTags(f.editingId)
        g == [f EXCEPT !.items = [j \in 1..Len(items) |-> items[j].id]]
        h == CreateLoop(g, 1)
    IN
    /\ f.kind = "save" /\ f.pc = "DemoTag.list"
    /\ flows' = [flows EXCEPT ![k] = h]
    /\ editingId' = NoId
    /\ FormAfter(h)
    /\ UNCHANGED <<formErrors, remoteVars, debugInfo, mirrorVars, uiVars>>

\* await client.models.DemoTag.list(...) resolves; the delete loop starts, or,
\* with nothing to delete, setEditingId(null) and the create loop
SaveListed(k) ==
    LET f == flows[k]
        items == ListDemoTags(f.editingId)
        g == [f EXCEPT !.items = [j \in 1..Len(items) |-> items[j].id]]
        h == IF items # <<>>
             THEN Issue([g EXCEPT !.i = 1], "DemoTag.delete", items[1].id, "")
             ELSE CreateLoop(g, 1)
    IN
    /\ f.kind = "save" /\ f.pc = "DemoTag.list"
    /\ flows' = [flows EXCEPT ![k] = h]
    /\ editingId' = IF items = <<>> THEN NoId ELSE editingId
    /\ FormAfter(h)
    /\ UNCHANGED <<formErrors, remoteVars, debugInfo, mirrorVars, uiVars>>

\* await client.models.DemoTag.delete(...) resolves in the delete loop of an edit
SaveTagDeleted(k) ==
    LET f == flows[k]
        last == f.i = Len(f.items)
        h == IF ~last
             THEN Issue([f EXCEPT !.i = f.i + 1], "DemoTag.delete", f.items[f.i + 1], "")
             ELSE CreateLoop(f, 1)
    IN
    /\ f.kind = "save" /\ f.pc = "DemoTag.delete"
    /\ \E a \in DemoTag : a.id = f.items[f.i]
    /\ DemoTag' = {a \in DemoTag : a.id # f.items[f.i]}
    /\ flows' = [flows EXCEPT ![k] = h]
    /\ editingId' = IF last THEN NoId ELSE editingId
    /\ FormAfter(h)
    /\ UNCHANGED <<formErrors, Demo, nextDemoId, hasModels, debugInfo,
                   mirrorVars, uiVars>>

\* await client.models.Demo.create(formData) resolves
SaveCreated(k) ==
    LET f == flows[k]
        h == CreateLoop([f EXCEPT !.demoId = nextDemoId], 1)
    IN
    /\ f.kind = "save" /\ f.pc = "Demo.create"
    /\ nextDemoId <= MaxDemoId
    /\ Demo' = (nextDemoId :> f.formData) @@ Demo
    /\ nextDemoId' = nextDemoId + 1
    /\ flows' = [flows EXCEPT ![k] = h]
    /\ FormAfter(h)
    /\ UNCHANGED <<editingId, formErrors, DemoTag, hasModels, debugInfo,
                   mirrorVars, uiVars>>

\* the ids a run still holds for the deletes of its loop
PendingIds ==
    UNION {IF flows[k].pc = "DemoTag.delete"
           THEN {flows[k].items[j] : j \in flows[k].i..Len(flows[k].items)}
           ELSE {} : k \in Slots}

\* the copies of the pair the gateway can still name
FreeCopies(demoId, tagId) ==
    {c \in 1..MaxCopies :
        AssocId(demoId, tagId, c) \notin ({a.id : a \in DemoTag} \cup PendingIds)}

FreshDemoTagId(demoId, tagId) ==
    AssocId(demoId, tagId,
            CHOOSE m \in FreeCopies(demoId, tagId) :
                \A n \in FreeCopies(demoId, tagId) : m <= n)

\* await client.models.DemoTag.create(...) resolves in the create loop
SaveTagCreated(k) ==
    LET f == flows[k]
        h == CreateLoop(f, f.i + 1)
    IN
    /\ f.kind = "save" /\ f.pc = "DemoTag.create"
    /\ FreeCopies(f.demoId, f.selectedTags[f.i]) # {}
    /\ DemoTag' = DemoTag \cup
                    {[id |-> FreshDemoTagId(f.demoId, f.selectedTags[f.i]),
                      demoId |-> f.demoId, tagId |-> f.selectedTags[f.i]]}
    /\ flows' = [flows EXCEPT ![k] = h]
    /\ FormAfter(h)
    /\ UNCHANGED <<editingId, formErrors, Demo, nextDemoId, hasModels, debugInfo,
                   mirrorVars, uiVars>>

\* a catch block that appended its line to the log
SaveRejectedAppend(k) ==
    LET f == flows[k] IN
    /\ f.kind = "save" /\ InFlight(k)
    /\ debugInfo' = LogAppend(debugInfo, Line("Error in form submit: ", "rejected"))
    /\ flows' = [flows EXCEPT ![k] = Ended]
    /\ UNCHANGED <<mirrorVars, formVars, remoteVars, uiVars>>

\* a catch block that issued the rejected call again
SaveRejectedRetry(k) ==
    LET f == flows[k] IN
    /\ f.kind = "save" /\ InFlight(k)
    /\ debugInfo' = <<Line("Error in form submit: ", "rejected")>>
    /\ flows' = [flows EXCEPT ![k] = Issue(f, f.pc, f.trace[Len(f.trace)].id,
                                           f.trace[Len(f.trace)].tag)]
    /\ UNCHANGED <<mirrorVars, formVars, remoteVars, uiVars>>

\* an awaited call of handleSubmit rejects: the catch block
SaveRejected(k) ==
    LET f == flows[k] IN
    /\ f.kind = "save" /\ InFlight(k)
    /\ debugInfo' = <<Line("Error in form submit: ", "rejected")>>
    /\ flows' = [flows EXCEPT ![k] = Ended]
    /\ UNCHANGED <<mirrorVars, formVars, remoteVars, uiVars>>

deleteDemo(id, confirmed) ==
    /\ ~adminLoading
    /\ \E d \in Range(adminDemos) : d.id = id
    /\ \/ /\ ~modelExists
          /\ debugInfo' =
                <<Line("Cannot delete: Demo model is not available in the backend yet.", "")>>
          /\ UNCHANGED flows
       \/ /\ modelExists
          /\ ~confirmed
          /\ UNCHANGED <<debugInfo, flows>>
       \/ /\ modelExists
          /\ confirmed
          /\ HasFreeSlot
          /\ LET f == [Idle EXCEPT !.kind = "delete", !.demoId = id,
                                   !.alone = ~OthersInFlight,
                                   !.before = IF OthersInFlight THEN NoStore
                                              ELSE [Demo |-> Demo, DemoTag |-> DemoTag]]
             IN  flows' = Started(Issue(f, "DemoTag.list", id, ""))
          /\ UNCHANGED debugInfo
    /\ UNCHANGED <<mirrorVars, formVars, remoteVars, uiVars>>

\* the Entry delete that follows the delete loop of deleteDemo
EntryDelete(f) == Issue(f, "Demo.delete", f.demoId, "")

\* a deleteDemo that deleted the Entry before its Associations
DeleteListedEntryFirst(k) ==
    LET f == flows[k]
        items == ListDemoTags(f.demoId)
        g == [f EXCEPT !.items = [j \in 1..Len(items) |-> items[j].id]]
    IN
    /\ f.kind = "delete" /\ f.pc = "DemoTag.list"
    /\ flows' = [flows EXCEPT ![k] = EntryDelete(g)]
    /\ UNCHANGED <<remoteVars, debugInfo, mirrorVars, formVars, uiVars>>

\* await client.models.DemoTag.list(...) resolves in deleteDemo
DeleteListed(k) ==
    LET f == flows[k]
        items == ListDemoTags(f.demoId)
        g == [f EXCEPT !.items = [j \in 1..Len(items) |-> items[j].id]]
    IN
    /\ f.kind = "delete" /\ f.pc = "DemoTag.list"
    /\ flows' = [flows EXCEPT ![k] =
                    IF items # <<>>
                    THEN Issue([g EXCEPT !.i = 1], "DemoTag.delete", items[1].id, "")
                    ELSE EntryDelete(g)]
    /\ UNCHANGED <<remoteVars, debugInfo, mirrorVars, formVars, uiVars>>

\* await client.models.DemoTag.delete(...) resolves in deleteDemo
DeleteTagDeleted(k) ==
    LET f == flows[k] IN
    /\ f.kind = "delete" /\ f.pc = "DemoTag.delete"
    /\ \E a \in DemoTag : a.id = f.items[f.i]
    /\ DemoTag' = {a \in DemoTag : a.id # f.items[f.i]}
    /\ flows' = [flows EXCEPT ![k] =
                    IF f.i < Len(f.items)
                    THEN Issue([f EXCEPT !.i = f.i + 1], "DemoTag.delete", f.items[f.i + 1], "")
                    ELSE EntryDelete(f)]
    /\ UNCHANGED <<Demo, nextDemoId, hasModels, debugInfo,
                   mirrorVars, formVars, uiVars>>

\* await client.models.Demo.delete({ id }) resolves
DeleteDone(k) ==
    LET f == flows[k] IN
    /\ f.kind = "delete" /\ f.pc = "Demo.delete"
    /\ f.demoId \in DOMAIN Demo
    /\ Demo' = [d \in DOMAIN Demo \ {f.demoId} |-> Demo[d]]
    /\ flows' = [flows EXCEPT ![k] = Ended]
    /\ UNCHANGED <<DemoTag, nextDemoId, hasModels, debugInfo,
                   mirrorVars, formVars, uiVars>>

\* an awaited call of deleteDemo rejects: the catch block
DeleteRejected(k) ==
    LET f == flows[k] IN
    /\ f.kind = "delete" /\ InFlight(k)
    /\ debugInfo' = <<Line("Error deleting demo: ", "rejected")>>
    /\ flows' = [flows EXCEPT ![k] = Ended]
    /\ UNCHANGED <<mirrorVars, formVars, remoteVars, uiVars>>

\* The administrator of Spec:
\*  - works on the form only while no save or delete is running, on a view that
\*    shows the pushes of all earlier changes;
\*  - fills the empty fields from the first to the last, retypes only the
\*    name, and picks tags after that;
\*  - opens an Entry for editing only from a form that shows no error;
\*  - submits an incomplete form only when it is still empty.
\* Submits and deletes may overlap, and any awaited call may reject.
FieldSeq == <<"projectName", "githubLink", "projectLink", "imageUrl">>

Before(name) ==
    {FieldSeq[j] : j \in {i \in 1..Len(FieldSeq) :
                            \E l \in (i + 1)..Len(FieldSeq) : FieldSeq[l] = name}}

Quiet == ~OthersInFlight

ViewCurrent ==
    /\ ~adminLoading
    /\ adminDemos = DemoItemsNow
    /\ adminDemoTags = DemoTagItemsNow

Init ==
    /\ StoreOneEntry
    /\ hasModels \in BOOLEAN
    /\ AppConstructed
    /\ CatalogConstructed
    /\ ExtraConstructed
    /\ rejects = 0
    /\ overlaps = 0
    /\ asked = "none"

\* a step that asks nothing, rejects nothing and starts no run
Plain == UNCHANGED <<budgetVars, extraVars>> /\ asked' = "none"

\* the administrator works on the form
FormTurn == Quiet /\ (ViewCurrent \/ ~hasModels)

\* the administrator may submit or ask for a delete
StartTurn ==
    /\ ViewCurrent \/ ~Quiet \/ ~hasModels
    /\ Quiet \/ overlaps < MaxOverlaps

\* a submit or a delete that started a run while another was in flight is counted
CountStart ==
    /\ overlaps' = IF ~Quiet /\ flows' # flows THEN overlaps + 1 ELSE overlaps
    /\ UNCHANGED <<rejects, extraVars>>

\* a step of a run whose awaited call resolved
Resolved == Plain

\* a step of a run whose awaited call rejected
Rejected ==
    /\ rejects < MaxRejects
    /\ rejects' = rejects + 1
    /\ UNCHANGED <<overlaps, extraVars>>
    /\ asked' = "none"

Next ==
    \/ Mount /\ Plain
    \/ initializeTags /\ Plain
    \/ Quiet /\ DemoPush /\ Plain
    \/ Quiet /\ DemoTagPush /\ Plain
    \/ FormTurn /\ openCreateForm /\ Plain
    \/ \E demo \in Range(adminDemos) :
          FormTurn /\ formErrors = NoErrors /\ openEditForm(demo) /\ Plain
    \/ \E name \in Fields : \E value \in Typed(name) :
          /\ FormTurn
          /\ \A g \in Before(name) : formData[g] # <<>>
          /\ formData[name] = <<>> \/ name = "projectName"
          /\ handleChange(name, value)
          /\ Plain
    \/ \E tagId \in TagIds :
          /\ FormTurn
          /\ \A g \in Fields : formData[g] # <<>>
          /\ handleTagToggle(tagId)
          /\ Plain
    \/ FormTurn /\ resetForm /\ Plain
    \/ /\ StartTurn
       /\ FormValid \/ ~modelExists \/ (formData = EmptyForm /\ selectedTags = <<>>)
       /\ handleSubmit
       /\ CountStart
       /\ asked' = "none"
    \/ \E id \in DemoIds : \E confirmed \in BOOLEAN :
          /\ StartTurn
          /\ deleteDemo(id, confirmed)
          /\ CountStart
          /\ asked' = IF ~modelExists THEN "none"
                      ELSE IF confirmed THEN "accepted" ELSE "declined"
    \/ \E k \in Slots : SaveUpdated(k) /\ Resolved
    \/ \E k \in Slots : SaveListed(k) /\ Resolved
    \/ \E k \in Slots : SaveTagDeleted(k) /\ Resolved
    \/ \E k \in Slots : SaveCreated(k) /\ Resolved
    \/ \E k \in Slots : SaveTagCreated(k) /\ Resolved
    \/ \E k \in Slots : SaveRejected(k) /\ Rejected
    \/ \E k \in Slots : DeleteListed(k) /\ Resolved
    \/ \E k \in Slots : DeleteTagDeleted(k) /\ Resolved
    \/ \E k \in Slots : DeleteDone(k) /\ Resolved
    \/ \E k \in Slots : DeleteRejected(k) /\ Rejected

Spec == Init /\ [][Next]_vars

(***************************************************************************)
(* Catalog view: UserInterface.tsx                                         *)
(***************************************************************************)

\* The filter predicate of getFilteredDemos for one Entry
matchesSearch(demo) ==
    \/ searchTerm = <<>>
    \/ /\ demo.projectName.present
       /\ demo.projectName.text # <<>>
       /\ includes(toLowerCase(demo.projectName.text), toLowerCase(searchTerm))

\* faulty tag tests: OR across the selected tags; only loaded tags count
matchesTagsAny(demo) ==
    \/ Len(selectedFilterTags) = 0
    \/ \E i \in 1..Len(selectedFilterTags) :
          \E j \in 1..Len(demoTags) :
              /\ demoTags[j].demoId = demo.id
              /\ demoTags[j].tagId = selectedFilterTags[i]

matchesTagsLoaded(demo) ==
    \/ Len(selectedFilterTags) = 0
    \/ \A i \in 1..Len(selectedFilterTags) :
          \/ selectedFilterTags[i] \notin Range(availableTags)
          \/ \E j \in 1..Len(demoTags) :
                /\ demoTags[j].demoId = demo.id
                /\ demoTags[j].tagId = selectedFilterTags[i]

matchesTags(demo) ==
    \/ Len(selectedFilterTags) = 0
    \/ \A i \in 1..Len(selectedFilterTags) :
          \E j \in 1..Len(demoTags) :
              /\ demoTags[j].demoId = demo.id
              /\ demoTags[j].tagId = selectedFilterTags[i]

\* a faulty filter: the matches, last Entry first
getFilteredDemosReversed ==
    LET keep(demo) == matchesSearch(demo) /\ matchesTags(demo)
    IN  Reverse(SelectSeq(demos, keep))

getFilteredDemos ==
    LET keep(demo) == matchesSearch(demo) /\ matchesTags(demo)
    IN  SelectSeq(demos, keep)

\* a body with one message for every empty list
bodySingleMessage ==
    IF isLoading THEN "Loading demos..."
    ELSE IF Len(getFilteredDemos) = 0 THEN "No demos available yet. Check back soon!"
    ELSE "cards"

\* what the page shows under its header
body ==
    IF isLoading THEN "Loading demos..."
    ELSE IF Len(getFilteredDemos) = 0
         THEN (IF Len(demos) = 0 THEN "No demos available yet. Check back soon!"
               ELSE "No projects match your current filters.")
         ELSE "cards"

\* One render of the component: the view is derived from the current state.
Render ==
    /\ visible' = getFilteredDemos
    /\ renders' = IF renders < 2 THEN renders + 1 ELSE renders
    /\ UNCHANGED <<demos, demoTags, availableTags, searchTerm,
                   selectedFilterTags, isLoading>>

handleSearchChange(value) ==
    /\ ~isLoading
    /\ searchTerm' = value
    /\ renders' = 0
    /\ UNCHANGED <<demos, demoTags, availableTags, selectedFilterTags,
                   isLoading, visible>>

\* a toggle that appends the tag whether it is selected or not
handleFilterTagToggleAppend(tagId) ==
    /\ ~isLoading
    /\ tagId \in Range(availableTags)
    /\ selectedFilterTags' = Append(selectedFilterTags, tagId)
    /\ renders' = 0
    /\ UNCHANGED <<demos, demoTags, availableTags, searchTerm, isLoading, visible>>

handleFilterTagToggle(tagId) ==
    /\ ~isLoading
    /\ tagId \in Range(availableTags)
    /\ selectedFilterTags' =
          IF tagId \in Range(selectedFilterTags)
          THEN LET other(id) == id # tagId IN SelectSeq(selectedFilterTags, other)
          ELSE Append(selectedFilterTags, tagId)
    /\ renders' = 0
    /\ UNCHANGED <<demos, demoTags, availableTags, searchTerm, isLoading, visible>>

clearAllFilters ==
    /\ searchTerm' = <<>>
    /\ selectedFilterTags' = <<>>
    /\ renders' = 0
    /\ UNCHANGED <<demos, demoTags, availableTags, isLoading, visible>>

\* loadTags: the Tag list arrives and replaces availableTags
TagLists == {<<>>, <<"t1", "t2">>}

loadTags(tags) ==
    /\ availableTags' = tags
    /\ UNCHANGED <<demos, demoTags, searchTerm, selectedFilterTags,
                   isLoading, visible, renders>>

(***************************************************************************)
(* The View Filter over bounded inputs                                     *)
(***************************************************************************)
DemoItems == [id : EntryIds, projectName : Names]

DistinctIds(s) == \A i, j \in 1..Len(s) : i # j => s[i].id # s[j].id

DemoSeqs ==
    {s \in UNION {[1..n -> DemoItems] : n \in 0..MaxEntries} : DistinctIds(s)}

Links == EntryIds \X TagIds

RECURSIVE LinkSeq(_)
LinkSeq(S) ==
    IF S = {} THEN <<>>
    ELSE LET l == CHOOSE x \in S : TRUE
         IN  <<[id |-> l, demoId |-> l[1], tagId |-> l[2]]>> \o LinkSeq(S \ {l})

DemoTagSeqs == {LinkSeq(S) : S \in SUBSET Links}

InitFilter ==
    /\ StoreEmpty
    /\ hasModels = TRUE
    /\ AppConstructed
    /\ demos \in DemoSeqs
    /\ demoTags \in DemoTagSeqs
    /\ availableTags = <<>>
    /\ searchTerm = <<>>
    /\ selectedFilterTags = <<>>
    /\ isLoading \in BOOLEAN
    /\ isLoading => demos = <<>>
    /\ visible = <<>>
    /\ renders = 0
    /\ ExtraConstructed
    /\ rejects = 0
    /\ overlaps = 0
    /\ asked = "none"

NextFilter ==
    /\ \/ Render
       \/ \E value \in SearchTerms : handleSearchChange(value)
       \/ \E tagId \in TagIds : handleFilterTagToggle(tagId)
       \/ clearAllFilters
       \/ \E tags \in TagLists : loadTags(tags)
    /\ UNCHANGED <<remoteVars, adminVars, budgetVars, asked, extraVars>>

SpecFilter == InitFilter /\ [][NextFilter]_vars


(***************************************************************************)
(* Claims about the View Filter (SpecFilter)                               *)
(***************************************************************************)
SameLetter(c, d) ==
    \/ c = d
    \/ {c, d} \in {{"a", "A"}, {"b", "B"}}

\* the name of e contains S, ignoring case
NameContains(e, S) ==
    /\ e.projectName.present
    /\ \E off \in 0..(Len(e.projectName.text) - Len(S)) :
          \A k \in 1..Len(S) : SameLetter(e.projectName.text[off + k], S[k])

HasLink(e, t) == \E a \in Range(demoTags) : a.demoId = e.id /\ a.tagId = t

Visible(e) ==
    /\ searchTerm = <<>> \/ NameContains(e, searchTerm)
    /\ \/ Range(selectedFilterTags) = {}
       \/ \A t \in Range(selectedFilterTags) : HasLink(e, t)

\* C1: an Entry is in the View Filter's output iff (the search text is empty or
\* its name contains the search text ignoring case) and (no tag is selected or
\* every selected tag has an enriched Association with this Entry); so an Entry
\* without Associations is shown iff no tag is selected (and the search matches).
C1_ViewFilterRule ==
    renders > 0 =>
        /\ Range(visible) \subseteq Range(demos)
        /\ \A i \in 1..Len(demos) :
              (demos[i] \in Range(visible)) <=> Visible(demos[i])
        /\ \A i \in 1..Len(demos) :
              (\A a \in Range(demoTags) : a.demoId # demos[i].id) =>
                  ((demos[i] \in Range(visible)) <=>
                      /\ Range(selectedFilterTags) = {}
                      /\ searchTerm = <<>> \/ NameContains(demos[i], searchTerm))

\* two tags selected, a search text typed, one of two Entries shown
C1_Witness ==
    /\ renders > 0
    /\ Cardinality(Range(selectedFilterTags)) = 2
    /\ searchTerm = <<"A">>
    /\ Len(demos) = 2
    /\ Len(visible) = 1
    /\ \E i \in 1..Len(demos) :
          /\ demos[i] \notin Range(visible)
          /\ NameContains(demos[i], searchTerm)
          /\ \E t \in Range(selectedFilterTags) : HasLink(demos[i], t)

\* v is s with some elements left out, the others in the order of s
IsSubSequence(v, s) ==
    \E f \in [1..Len(v) -> 1..Len(s)] :
        /\ \A k \in 1..Len(v) : v[k] = s[f[k]]
        /\ \A k, l \in 1..Len(v) : k < l => f[k] < f[l]

\* C2: the View Filter's output is a sub-sequence of the Entry sequence: only
\* Entries of it, none more often than there, in the same relative order.
C2_OrderPreserved == renders > 0 => IsSubSequence(visible, demos)

C2_Witness ==
    /\ renders > 0
    /\ Len(visible) = MaxEntries
    /\ searchTerm # <<>>
    /\ selectedFilterTags # <<>>

\* C3: the View Filter is a function of the Entry sequence, the enriched
\* Associations, the search text and the selected tags alone: a render changes
\* none of demos, demoTags, searchTerm, selectedFilterTags, isLoading, and a
\* render with the same four inputs as the render before it gives the same
\* output, whatever else changed in between.
C3_PureDerivation ==
    [][renders' > 0 =>
        /\ UNCHANGED <<demos, demoTags, searchTerm, selectedFilterTags, isLoading>>
        /\ renders > 0 => visible' = visible]_vars

\* rendered twice from the same inputs, with a filter that hides an Entry
C3_Witness ==
    /\ renders = 2
    /\ availableTags # <<>>
    /\ selectedFilterTags # <<>>
    /\ visible # <<>>
    /\ Len(visible) < Len(demos)


(***************************************************************************)
(* Claims about the administrator workflows (Spec)                         *)
(***************************************************************************)

\* the Associations of an Entry in a table
Of(table, demoId) == {a \in table : a.demoId = demoId}

\* the tag ids of a set of Associations
TagsOf(S) == {a.tagId : a \in S}

\* the run in slot k, a save, ends in this step with no step rejected, and no
\* other run was in flight at any time since it started
SaveCompletesAlone(k) ==
    /\ flows[k].kind = "save"
    /\ flows[k].alone
    /\ flows'[k] = Idle
    /\ rejects' = rejects

\* C4: a valid create form with selected tag set T, saved with no rejected step
\* and no other run in flight, creates exactly one new Entry, exactly one
\* Association per tag of T for it and none for another tag; the enriched
\* Associations read back for the Entry have the tag ids T.
C4_CreateRoundTrip ==
    [][\A k \in Slots :
          SaveCompletesAlone(k) /\ flows[k].editingId = NoId =>
             LET f == flows[k]
                 T == Range(f.selectedTags)
                 created == DOMAIN Demo' \ DOMAIN f.before.Demo
             IN  /\ Cardinality(created) = 1
                 /\ DOMAIN f.before.Demo \subseteq DOMAIN Demo'
                 /\ \A e \in created :
                       /\ \A t \in T :
                             Cardinality({a \in Of(DemoTag', e) : a.tagId = t}) = 1
                       /\ TagsOf(Of(DemoTag', e)) = T
                       /\ TagsOf(Of(Range(DemoTagItemsNow'), e)) = T]_vars

\* C5: a valid edit of an Entry with newly selected tag set T2, saved with no
\* rejected step and no other run in flight, leaves the Entry with exactly one
\* Association per tag of T2 and none for another tag, and leaves the
\* Associations of the other Entries as they were.
C5_EditRoundTrip ==
    [][\A k \in Slots :
          SaveCompletesAlone(k) /\ flows[k].editingId # NoId =>
             LET f == flows[k]
                 T2 == Range(f.selectedTags)
                 mine == Of(DemoTag', f.editingId)
             IN  /\ TagsOf(mine) = T2
                 /\ \A t \in T2 : Cardinality({a \in mine : a.tagId = t}) = 1
                 /\ DemoTag' \ mine = f.before.DemoTag \ Of(f.before.DemoTag, f.editingId)]_vars

\* C6: whenever no run is in flight, every Association of the remote store
\* references an existing Entry and an existing Tag.
C6_ReferentialInvariant ==
    Quiet => \A a \in DemoTag : a.demoId \in DOMAIN Demo /\ a.tagId \in TagIds

\* the deletes a run issues for the Associations it listed, in the listed order
DeletesOf(f) ==
    [j \in 1..Len(f.items) |-> Call("DemoTag.delete", f.items[j], "")]

\* the calls of a confirmed deleteDemo that got as far as the Entry delete
DeleteCalls(f) ==
    <<Call("DemoTag.list", f.demoId, "")>> \o DeletesOf(f)
        \o <<Call("Demo.delete", f.demoId, "")>>

\* the ids DemoTag.list returns for an Entry
ListedIds(demoId) ==
    [j \in 1..Len(ListDemoTags(demoId)) |-> ListDemoTags(demoId)[j].id]

\* the awaited Association delete of the run in slot k, its last, resolves in
\* this step
LastDeleteResolves(k) ==
    /\ flows[k].pc = "DemoTag.delete"
    /\ flows[k].i = Len(flows[k].items)
    /\ rejects' = rejects
    /\ \E a \in DemoTag : a.id = flows[k].items[flows[k].i]
    /\ \A a \in DemoTag' : a.id # flows[k].items[flows[k].i]

\* C7: a declined confirmation makes no remote call; a confirmed deleteDemo
\* issues the Entry delete only in the step in which the delete of the last
\* listed Association resolves (or the list came back empty), after it issued
\* and awaited, one by one, the delete of every Association listed.
C7_DeleteOrdering ==
    [][/\ asked' = "declined" => UNCHANGED <<remoteVars, flows>>
       /\ \A k \in Slots :
             /\ flows[k].kind = "delete" /\ flows[k].pc = "DemoTag.list"
                   /\ flows'[k].kind = "delete" /\ flows'[k].pc # "DemoTag.list"
                => flows'[k].items = ListedIds(flows[k].demoId)
             /\ flows'[k].pc = "Demo.delete" /\ flows[k].pc # "Demo.delete"
                => /\ flows[k].kind = "delete"
                   /\ flows'[k].trace = DeleteCalls(flows'[k])
                   /\ \/ flows[k].pc = "DemoTag.list" /\ flows'[k].items = <<>>
                      \/ LastDeleteResolves(k)]_vars

C7_Witness ==
    /\ asked = "declined"
    /\ \E k \in Slots :
          /\ flows[k].kind = "delete"
          /\ flows[k].pc = "Demo.delete"
          /\ Len(flows[k].items) = 2

\* the calls of an edit in the order of handleSubmit
EditCalls(f) ==
    <<Call("Demo.update", f.editingId, ""), Call("DemoTag.list", f.editingId, "")>>
        \o DeletesOf(f)
        \o [j \in 1..Len(f.selectedTags) |->
                Call("DemoTag.create", f.editingId, f.selectedTags[j])]

IsPrefix(s, t) == Len(s) <= Len(t) /\ SubSeq(t, 1, Len(s)) = s

\* C8: the calls an edit has issued are always an initial part of: update the
\* Entry, list its Associations, delete each listed one, create one per
\* selected tag; the listed ones are all the Associations of the Entry; and
\* the first create is issued only in the step in which the last delete
\* resolves (or the list came back empty).
C8_EditOrdering ==
    [][\A k \in Slots :
          flows'[k].kind = "save" /\ flows'[k].editingId # NoId =>
             /\ flows'[k].trace # <<>>
             /\ IsPrefix(flows'[k].trace, EditCalls(flows'[k]))
             /\ flows'[k].trace[Len(flows'[k].trace)].call = flows'[k].pc
             /\ flows[k].pc = "DemoTag.list" /\ flows'[k].pc # "DemoTag.list" =>
                   flows'[k].items = ListedIds(flows[k].editingId)
             /\ flows'[k].pc = "DemoTag.create" /\ flows[k].pc # "DemoTag.create" =>
                   \/ flows[k].pc = "DemoTag.list" /\ flows'[k].items = <<>>
                   \/ LastDeleteResolves(k)]_vars

C8_Witness ==
    \E k \in Slots :
       /\ flows[k].kind = "save"
       /\ flows[k].editingId # NoId
       /\ flows[k].pc = "DemoTag.create"
       /\ Len(flows[k].items) = 2
       /\ flows[k].i = 2

\* C9 as stated: when a step of a save or delete run is rejected, the debug log
\* after the failure has the debug log before the failure as a prefix.
C9_AppendedToLog ==
    [][rejects' # rejects => IsPrefix(debugInfo, debugInfo')]_vars

\* the line the catch block of a run writes
ErrorLine(f) ==
    Line(IF f.kind = "save" THEN "Error in form submit: " ELSE "Error deleting demo: ",
         "rejected")

\* C9 as amended: when a step of a save or delete run is rejected, the rejection
\* is caught (the form, the mirror and the other runs are as before) and the
\* debug log becomes the error line with the message, replacing what it held.
C9_ReplacesLog ==
    [][rejects' # rejects =>
          \E k \in Slots :
             /\ InFlight(k)
             /\ flows'[k] = Idle
             /\ debugInfo' = <<ErrorLine(flows[k])>>
             /\ \A j \in Slots \ {k} : flows'[j] = flows[j]
             /\ UNCHANGED <<formVars, mirrorVars>>]_vars

C9_Witness ==
    /\ rejects = 1
    /\ debugInfo = <<Line("Error deleting demo: ", "rejected")>>
    /\ DemoTag = {}
    /\ 1 \in DOMAIN Demo

\* C10: a rejected step ends its run: the run issues no further call and none
\* again, the step leaves the remote store as the completed steps made it, and
\* afterwards only runs in flight change the remote store.
C10_NoRetryNoRollback ==
    [][/\ rejects' # rejects =>
             /\ UNCHANGED remoteVars
             /\ \E k \in Slots :
                   /\ InFlight(k)
                   /\ flows'[k] = Idle
                   /\ \A j \in Slots \ {k} : flows'[j] = flows[j]
       /\ remoteVars' # remoteVars =>
             \E k \in Slots : InFlight(k) /\ flows'[k] # flows[k]]_vars

\* an edit of Entry 1 failed after its deletes: the Entry is updated and has
\* no Association
C10_Witness ==
    /\ rejects = 1
    /\ overlaps = 0
    /\ Quiet
    /\ debugInfo = <<Line("Error in form submit: ", "rejected")>>
    /\ 1 \in DOMAIN Demo
    /\ Demo[1].projectName = <<" ", "w">>
    /\ Of(DemoTag, 1) = {}


(***************************************************************************)
(* The form of the administrator view on its own (SpecForm): while no run  *)
(* waits, the fields take the texts of Texts in any order and at any time, *)
(* and the form is submitted in every state.  The run a valid submit       *)
(* starts is left waiting.                                                 *)
(***************************************************************************)
Texts(f) ==
    IF f \in {"projectName", "githubLink"} THEN {<<>>, <<" ">>, <<" ", "w">>}
    ELSE {<<>>, <<"u">>}

NextForm ==
    \/ Mount /\ Plain
    \/ initializeTags /\ Plain
    \/ Quiet /\ DemoPush /\ Plain
    \/ Quiet /\ DemoTagPush /\ Plain
    \/ Quiet /\ openCreateForm /\ Plain
    \/ \E demo \in Range(adminDemos) : Quiet /\ openEditForm(demo) /\ Plain
    \/ \E name \in Fields : \E value \in Texts(name) :
          Quiet /\ handleChange(name, value) /\ Plain
    \/ \E tagId \in TagIds : Quiet /\ handleTagToggle(tagId) /\ Plain
    \/ Quiet /\ resetForm /\ Plain
    \/ handleSubmit /\ CountStart /\ asked' = "none"

SpecForm == Init /\ [][NextForm]_vars

\* a required field that is empty after trimming
Blank(f) == trim(formData[f]) = <<>>

\* C11 as stated: a submit with a required field empty after trimming issues
\* no remote call, leaves the remote collections unchanged, and sets the
\* error flag of every such field and clears the flag of every other field.
C11_ValidationGate ==
    [][handleSubmit /\ (\E f \in Fields : Blank(f)) =>
          /\ UNCHANGED <<remoteVars, flows>>
          /\ \A f \in Fields : formErrors'[f] = Blank(f)]_vars

\* C11 as amended: the same, for a submit while the models are available.
C11_ValidationGateWithModels ==
    [][handleSubmit /\ modelExists /\ (\E f \in Fields : Blank(f)) =>
          /\ UNCHANGED <<remoteVars, flows>>
          /\ \A f \in Fields : formErrors'[f] = Blank(f)]_vars

\* a submit flagged a name of blanks and cleared the flag of a filled field
C11_Witness ==
    /\ modelExists
    /\ formData.projectName = <<" ">>
    /\ formErrors.projectName
    /\ formData.githubLink = <<" ", "w">>
    /\ ~formErrors.githubLink
    /\ formErrors.imageUrl
    /\ \A k \in Slots : ~InFlight(k)


(***************************************************************************)
(* Catalog view: the mount effect and the two live queries                 *)
(* (UserInterface.tsx 90-166; App.tsx 104-189 has the same shape)          *)
(***************************************************************************)
MaxPushes == 2      \* pushes one stream delivers
MaxItems == 2       \* items of one push

\* the Tag table the lookups read: "t1" and "t2" exist, "t0" was removed
TagName(tagId) == IF tagId = "t1" THEN "Games" ELSE "ML"

\* Tag.get({id}) when it resolves: { data: Tag | null }
TagGet(tagId) ==
    IF tagId \in TagIds
    THEN [data |-> [present |-> TRUE, id |-> tagId, name |-> TagName(tagId)]]
    ELSE [data |-> [present |-> FALSE, id |-> "", name |-> ""]]

\* an item of a Demo.observeQuery snapshot: the Entry's fields and the lazy
\* loader of its relationship
StreamDemo(id, name) ==
    [id |-> id, projectName |-> name, githubLink |-> Str(<<"u">>),
     projectLink |-> Str(<<"u">>), imageUrl |-> Null,
     createdAt |-> "c", updatedAt |-> "c", tags |-> "lazy"]

StreamDemos ==
    {StreamDemo(id, IF id = 1 THEN Null ELSE Str(<<"a", "B">>)) : id \in EntryIds}

\* the snapshots the Entry stream can carry
DemoSnapshots ==
    {s \in UNION {[1..n -> StreamDemos] : n \in 0..MaxItems} : DistinctIds(s)}

\* the items of a DemoTag.observeQuery snapshot
StreamDemoTags ==
    {[id |-> "r1", demoId |-> 1, tagId |-> "t1"],
     [id |-> "r2", demoId |-> 1, tagId |-> "t2"],
     [id |-> "r3", demoId |-> 2, tagId |-> "t0"]}

\* the snapshots the Association stream can carry
DemoTagSnapshots ==
    {s \in UNION {[1..n -> StreamDemoTags] : n \in 0..MaxItems} :
        \A i, j \in 1..Len(s) : i # j => s[i] # s[j]}

\* data.items.map(item => ({id, projectName, ..., updatedAt}))
typedItems(items) ==
    [i \in 1..Len(items) |->
        [id |-> items[i].id, projectName |-> items[i].projectName,
         githubLink |-> items[i].githubLink, projectLink |-> items[i].projectLink,
         imageUrl |-> items[i].imageUrl, createdAt |-> items[i].createdAt,
         updatedAt |-> items[i].updatedAt]]

\* a state setter of the catalog view; React drops it once the view is unmounted
SetState(now, value) == IF view = "mounted" THEN value ELSE now

filterVars == <<availableTags, searchTerm, selectedFilterTags, visible, renders>>

adminSide == <<remoteVars, adminVars, budgetVars, asked, writeLog, accessVars, lateVars>>

\* useEffect(() => {...}, []) of UserInterface; setup says which subscribe call,
\* if any, throws
CatalogMountEager(setup) ==
    /\ view = "constructed"
    /\ view' = "mounted"
    /\ isLoading' = FALSE
    /\ IF hasModels /\ setup = "subscribed"
       THEN /\ demoSubscription' = "open"
            /\ demoTagSubscription' = "open"
            /\ cleanup' = TRUE
       ELSE UNCHANGED <<demoSubscription, demoTagSubscription, cleanup>>
    /\ UNCHANGED <<demos, demoTags, filterVars, handlers, demoPushes, adminSide>>

CatalogMount(setup) ==
    /\ view = "constructed"
    /\ view' = "mounted"
    /\ \/ /\ ~hasModels
          /\ isLoading' = FALSE
          /\ UNCHANGED <<demoSubscription, demoTagSubscription, cleanup>>
       \/ /\ hasModels
          /\ setup = "subscribed"
          /\ demoSubscription' = "open"
          /\ demoTagSubscription' = "open"
          /\ cleanup' = TRUE
          /\ UNCHANGED isLoading
       \/ /\ hasModels
          /\ setup = "Demo throws"
          /\ isLoading' = FALSE
          /\ UNCHANGED <<demoSubscription, demoTagSubscription, cleanup>>
       \/ /\ hasModels
          /\ setup = "DemoTag throws"
          /\ demoSubscription' = "open"
          /\ isLoading' = FALSE
          /\ UNCHANGED <<demoTagSubscription, cleanup>>
    /\ UNCHANGED <<demos, demoTags, filterVars, handlers, demoPushes, adminSide>>

\* the Tag list loadTags asked for at mount arrives
CatalogTagsLoaded ==
    /\ view = "mounted"
    /\ hasModels
    /\ availableTags = <<>>
    /\ loadTags(TagSeq)
    /\ UNCHANGED <<streamVars, adminSide>>

\* demoSubscription.next
demoSubscriptionNextMerge(data) ==
    /\ demoSubscription = "open"
    /\ view = "mounted"
    /\ demoPushes < MaxPushes
    /\ demos' = demos \o typedItems(data)
    /\ isLoading' = FALSE
    /\ demoPushes' = demoPushes + 1
    /\ UNCHANGED <<demoTags, filterVars, view, demoSubscription, demoTagSubscription,
                   cleanup, handlers, adminSide>>

demoSubscriptionNext(data) ==
    /\ demoSubscription = "open"
    /\ view = "mounted"
    /\ demoPushes < MaxPushes
    /\ demos' = typedItems(data)
    /\ isLoading' = FALSE
    /\ demoPushes' = demoPushes + 1
    /\ UNCHANGED <<demoTags, filterVars, view, demoSubscription, demoTagSubscription,
                   cleanup, handlers, adminSide>>

\* demoSubscription.error; the stream is over
demoSubscriptionErrorSilent ==
    /\ demoSubscription = "open"
    /\ demoSubscription' = "errored"
    /\ UNCHANGED <<demos, demoTags, isLoading, filterVars, view, demoTagSubscription,
                   cleanup, handlers, demoPushes, adminSide>>

demoSubscriptionError ==
    /\ demoSubscription = "open"
    /\ demoSubscription' = "errored"
    /\ isLoading' = SetState(isLoading, FALSE)
    /\ UNCHANGED <<demos, demoTags, filterVars, view, demoTagSubscription,
                   cleanup, handlers, demoPushes, adminSide>>

\* a run of demoTagSubscription.next: i items looked up so far, enriched as
\* pushed so far, outcomes what each lookup gave
Handler(items) == [items |-> items, i |-> 0, enriched |-> <<>>, outcomes |-> <<>>]

Finished(h) == h.i = Len(h.items)

\* demoTagSubscription.next up to its first await: with no item it stores the
\* empty sequence at once, otherwise it waits for the first lookup
demoTagSubscriptionNext(data) ==
    /\ demoTagSubscription = "open"
    /\ view = "mounted"
    /\ Len(handlers) < MaxPushes
    /\ handlers' = Append(handlers, Handler(data))
    /\ demoTags' = IF data = <<>> THEN <<>> ELSE demoTags
    /\ UNCHANGED <<demos, isLoading, filterVars, view, demoSubscription,
                   demoTagSubscription, cleanup, demoPushes, adminSide>>

\* the enriched Association of an item and the Tag its lookup returned
Enriched(item, tag) ==
    [id |-> item.id, demoId |-> item.demoId, tagId |-> item.tagId,
     tag |-> [id |-> tag.id, name |-> tag.name]]

\* what the loop body leaves in enrichedDemoTags for one item
AfterLookupUnchecked(h, item, thrown) ==
    IF ~thrown
    THEN Append(h.enriched, Enriched(item, TagGet(item.tagId).data))
    ELSE h.enriched

AfterLookup(h, item, thrown) ==
    IF ~thrown /\ TagGet(item.tagId).data.present
    THEN Append(h.enriched, Enriched(item, TagGet(item.tagId).data))
    ELSE h.enriched

Outcome(item, thrown) ==
    IF thrown THEN "thrown"
    ELSE IF TagGet(item.tagId).data.present THEN "tag" ELSE "null"

\* run n resumes after await Tag.get: the loop body for the item, then the next
\* lookup or, after the last item, setDemoTags(enrichedDemoTags)
TagGetSettled(n, thrown) ==
    /\ n \in 1..Len(handlers)
    /\ ~Finished(handlers[n])
    /\ LET h == handlers[n]
           item == h.items[h.i + 1]
           out == AfterLookup(h, item, thrown)
       IN  /\ handlers' = [handlers EXCEPT ![n] =
                             [h EXCEPT !.i = h.i + 1, !.enriched = out,
                                       !.outcomes = Append(h.outcomes,
                                                           Outcome(item, thrown))]]
           /\ demoTags' = IF h.i + 1 = Len(h.items) THEN SetState(demoTags, out)
                          ELSE demoTags
    /\ UNCHANGED <<demos, isLoading, filterVars, view, demoSubscription,
                   demoTagSubscription, cleanup, demoPushes, adminSide>>

\* demoTagSubscription.error; the stream is over
demoTagSubscriptionError ==
    /\ demoTagSubscription = "open"
    /\ demoTagSubscription' = "errored"
    /\ UNCHANGED <<uiVars, view, demoSubscription, cleanup, handlers, demoPushes,
                   adminSide>>

\* unsubscribe() of a subscription
Unsubscribed(sub) == IF sub = "open" THEN "unsubscribed" ELSE sub

\* the view is torn down: React runs the cleanup the effect returned, if any
CatalogUnmount ==
    /\ view = "mounted"
    /\ view' = "unmounted"
    /\ IF cleanup
       THEN /\ demoSubscription' = Unsubscribed(demoSubscription)
            /\ demoTagSubscription' = Unsubscribed(demoTagSubscription)
       ELSE UNCHANGED <<demoSubscription, demoTagSubscription>>
    /\ UNCHANGED <<uiVars, cleanup, handlers, demoPushes, adminSide>>

Setups == {"subscribed", "Demo throws", "DemoTag throws"}

NextStream ==
    \/ \E setup \in Setups : CatalogMount(setup)
    \/ CatalogTagsLoaded
    \/ \E data \in DemoSnapshots : demoSubscriptionNext(data)
    \/ demoSubscriptionError
    \/ \E data \in DemoTagSnapshots : demoTagSubscriptionNext(data)
    \/ \E n \in 1..MaxPushes : \E thrown \in BOOLEAN : TagGetSettled(n, thrown)
    \/ demoTagSubscriptionError
    \/ CatalogUnmount

SpecStream == Init /\ [][NextStream]_vars

(***************************************************************************)
(* Claims about the Local Mirror                                           *)
(***************************************************************************)
EntryFields == {"id", "projectName", "githubLink", "projectLink", "imageUrl",
                "createdAt", "updatedAt"}

SameEntry(e, item) == \A f \in EntryFields : e[f] = item[f]

\* C12: right after an Entry push carrying the items X is handled, the local
\* Entry sequence is X, item by item (same length, same order, every Entry field
\* equal), whatever it held before: nothing of the old sequence is kept unless
\* X has it.
C12_WholesaleReplacement ==
    [][\A data \in DemoSnapshots :
          demoSubscriptionNext(data) =>
             /\ Len(demos') = Len(data)
             /\ \A i \in 1..Len(data) : SameEntry(demos'[i], data[i])
             /\ \A e \in Range(demos') : \E i \in 1..Len(data) : SameEntry(e, data[i])]_vars

\* a second push, of Entry 2 alone, has been handled
C12_Witness ==
    /\ demoPushes = 2
    /\ Len(demos) = 1
    /\ demos[1].id = 2
    /\ "tags" \notin DOMAIN demos[1]

AllFinished == \A n \in 1..Len(handlers) : Finished(handlers[n])

\* C13: once the handlers of all delivered Association pushes have finished, the
\* local enriched sequence is the enrichment of the push delivered last: the
\* lookups of an older push never overwrite the result of a newer one.
C13_LatestSnapshotWins ==
    (view = "mounted" /\ handlers # <<>> /\ AllFinished) =>
        demoTags = handlers[Len(handlers)].enriched

\* the enriched sequence the loop builds from the items and what their lookups gave
RECURSIVE Enrichment(_, _)
Enrichment(items, outcomes) ==
    IF items = <<>> THEN <<>>
    ELSE (IF Head(outcomes) = "tag"
          THEN <<[id |-> Head(items).id, demoId |-> Head(items).demoId,
                  tagId |-> Head(items).tagId,
                  tag |-> [id |-> Head(items).tagId,
                           name |-> TagName(Head(items).tagId)]]>>
          ELSE <<>>) \o Enrichment(Tail(items), Tail(outcomes))

\* C14: when the handler of an Association push with items I stores its result,
\* the stored sequence holds, in the order of I, exactly the items whose lookup
\* returned a Tag, each with its id, Entry reference, tag reference and the
\* Tag's name; an item whose lookup threw or returned no Tag is left out, every
\* item was looked up, and nothing else of the view state changes.
C14_Enricher ==
    [][/\ \A n \in 1..MaxPushes : \A thrown \in BOOLEAN :
            (view = "mounted" /\ TagGetSettled(n, thrown) /\ Finished(handlers'[n])) =>
               /\ Len(handlers'[n].outcomes) = Len(handlers[n].items)
               /\ demoTags' = Enrichment(handlers[n].items, handlers'[n].outcomes)
               /\ UNCHANGED <<demos, isLoading, filterVars>>
       /\ \A n \in 1..MaxPushes : \A thrown \in BOOLEAN :
            (TagGetSettled(n, thrown) /\ ~Finished(handlers'[n])) => UNCHANGED uiVars
       /\ (view = "mounted" /\ demoTagSubscriptionNext(<<>>)) => demoTags' = <<>>]_vars

\* a push of two items: the first lookup threw, the second returned its Tag
C14_Witness ==
    /\ view = "mounted"
    /\ \E n \in 1..Len(handlers) :
          /\ handlers[n].outcomes = <<"thrown", "tag">>
          /\ demoTags = handlers[n].enriched
    /\ Len(demoTags) = 1
    /\ demoTags[1].tag.name = "ML"

\* C15 as stated: after the error callback of either stream, isLoading is
\* false, and the stream is not subscribed to again.
C15_ErrorStopsLoading ==
    [][/\ (demoSubscriptionError \/ demoTagSubscriptionError) => ~isLoading'
       /\ demoSubscription = "errored" => demoSubscription' = "errored"
       /\ demoTagSubscription = "errored" => demoTagSubscription' = "errored"]_vars

\* C15 as amended: after the error callback of the Entry stream isLoading is
\* false; the error callback of the Association stream leaves isLoading as it
\* was; neither stream is subscribed to again.
C15_EntryErrorStopsLoading ==
    [][/\ demoSubscriptionError => ~isLoading'
       /\ demoTagSubscriptionError => isLoading' = isLoading
       /\ demoSubscription = "errored" => demoSubscription' = "errored"
       /\ demoTagSubscription = "errored" => demoTagSubscription' = "errored"]_vars

\* the Entry stream failed before its first push; the Association stream failed too
C15_Witness ==
    /\ demoSubscription = "errored"
    /\ demoTagSubscription = "errored"
    /\ demoPushes = 0
    /\ ~isLoading
    /\ view = "mounted"

\* no subscribe call threw and no stream reported an error
NoStreamError ==
    /\ view # "constructed" => cleanup
    /\ demoSubscription # "errored"
    /\ demoTagSubscription # "errored"

\* C16: isLoading is true before the mount effect runs; while the models exist
\* and no stream or setup error has occurred, isLoading is true exactly as long
\* as no Entry push has been handled, so it is false from the first push on.
C16_BlockingLoading ==
    /\ view = "constructed" => isLoading
    /\ (hasModels /\ NoStreamError) => (isLoading <=> demoPushes = 0)

\* two Entry pushes were handled without any error
C16_Witness ==
    /\ hasModels
    /\ NoStreamError
    /\ view = "mounted"
    /\ demoPushes = 2
    /\ ~isLoading

\* C17: no subscription is unsubscribed while the view is mounted, and once the
\* view is torn down no subscription is left open.
C17_SubscriptionLifecycle ==
    /\ view = "mounted" =>
          demoSubscription # "unsubscribed" /\ demoTagSubscription # "unsubscribed"
    /\ view = "unmounted" =>
          demoSubscription # "open" /\ demoTagSubscription # "open"

(***************************************************************************)
(* Administrator view: saves that overlap, with the order of their         *)
(* Association writes at the gateway                                       *)
(***************************************************************************)
\* a step that writes no Association and starts no run
Unwritten == Plain

\* a submit: a run it starts is numbered, from 1 when the gateway was idle
RunCounted ==
    /\ overlaps' = IF ~Quiet /\ flows' # flows THEN overlaps + 1 ELSE overlaps
    /\ UNCHANGED <<rejects, streamVars, accessVars, lateVars>>
    /\ asked' = "none"
    /\ writeLog' =
          IF flows' = flows THEN writeLog
          ELSE IF Quiet
               THEN [started |-> 1,
                     run |-> [k \in Slots |-> IF k = FreeSlot THEN 1 ELSE 0],
                     order |-> <<>>]
               ELSE [writeLog EXCEPT !.started = @ + 1,
                                     !.run[FreeSlot] = writeLog.started + 1]

\* the gateway applied an Association write (a create or a delete) of run k
Written(k) ==
    /\ UNCHANGED <<budgetVars, streamVars, accessVars, lateVars>>
    /\ asked' = "none"
    /\ writeLog' = [writeLog EXCEPT !.order = Append(@, writeLog.run[k])]

NextOverlap ==
    \/ Mount /\ Unwritten
    \/ initializeTags /\ Unwritten
    \/ Quiet /\ DemoPush /\ Unwritten
    \/ Quiet /\ DemoTagPush /\ Unwritten
    \/ FormTurn /\ openCreateForm /\ Unwritten
    \/ \E demo \in Range(adminDemos) :
          FormTurn /\ formErrors = NoErrors /\ openEditForm(demo) /\ Unwritten
    \/ \E name \in Fields : \E value \in Typed(name) :
          /\ FormTurn
          /\ \A g \in Before(name) : formData[g] # <<>>
          /\ formData[name] = <<>>
          /\ handleChange(name, value)
          /\ Unwritten
    \/ \E tagId \in TagIds :
          /\ FormTurn
          /\ \A g \in Fields : formData[g] # <<>>
          /\ handleTagToggle(tagId)
          /\ Unwritten
    \/ /\ StartTurn
       /\ FormValid \/ ~modelExists \/ (formData = EmptyForm /\ selectedTags = <<>>)
       /\ handleSubmit
       /\ RunCounted
    \/ \E k \in Slots : SaveUpdated(k) /\ Unwritten
    \/ \E k \in Slots : SaveListed(k) /\ Unwritten
    \/ \E k \in Slots : SaveTagDeleted(k) /\ Written(k)
    \/ \E k \in Slots : SaveCreated(k) /\ Unwritten
    \/ \E k \in Slots : SaveTagCreated(k) /\ Written(k)

SpecOverlap == Init /\ [][NextOverlap]_vars

\* a run of handleSubmit awaits one of its Association writes
AwaitsWrite(k) ==
    /\ flows[k].kind = "save"
    /\ flows[k].pc \in {"DemoTag.delete", "DemoTag.create"}

\* C18: handleSubmit has no submitting lock: while a run of an earlier submit
\* still awaits one of its Association writes and the shown form is valid (and
\* the model has a slot left for a run), a submit starts a second run.
C18_NoSubmitLock ==
    (/\ \E k \in Slots : AwaitsWrite(k)
     /\ FormShown /\ modelExists /\ FormValid /\ HasFreeSlot) =>
        ENABLED (handleSubmit /\ flows' # flows)

\* the Association writes of two saves are interleaved at the gateway: a write
\* of one run lies between two writes of another
C18_Witness ==
    \E i, j, l \in 1..Len(writeLog.order) :
        /\ i < j /\ j < l
        /\ writeLog.order[i] = writeLog.order[l]
        /\ writeLog.order[i] # writeLog.order[j]

(***************************************************************************)
(* The routing surface (AdminRoute.tsx 148-359) and the authorization      *)
(* rules of the data schema (amplify/data/resource.ts).                    *)
(***************************************************************************)
Paths == {"/", "/demos", "/admin"}

\* validUsers of handleLogin
validUsers ==
    {[username |-> "rodes", password |-> "remr020605"],
     [username |-> "reno", password |-> "!Reno1990."]}

\* what is typed into the login form
Usernames == {"rodes", "Rodes", "RENO", "guest"}
Passwords == {"remr020605", "REMR020605", "!Reno1990."}

\* String.prototype.toLowerCase on the user names
LowerName(name) ==
    CASE name = "Rodes" -> "rodes"
      [] name = "RENO" -> "reno"
      [] OTHER -> name

\* what the browser's storage may hold under demo_catalog_user at the first load
StoredUsers == {"", "rodes", "mallory"}

otherSide == <<uiVars, remoteVars, adminVars, budgetVars, asked, streamVars, writeLog,
               lateVars>>

\* useEffect(() => {...}, []) of the router: the stored login is read
RouterMount ==
    /\ authLoading
    /\ authLoading' = FALSE
    /\ IF storedUser # ""
       THEN isAuthenticated' = TRUE /\ currentUser' = storedUser
       ELSE UNCHANGED <<isAuthenticated, currentUser>>
    /\ UNCHANGED <<storedUser, path, request, loginData, loginError, otherSide>>

\* handleUsernameChange and handlePasswordChange
handleUsernameChange(value) ==
    /\ ~authLoading /\ path = "/admin" /\ ~isAuthenticated
    /\ loginData' = [loginData EXCEPT !.username = value]
    /\ UNCHANGED <<authLoading, isAuthenticated, currentUser, storedUser, path,
                   request, loginError, otherSide>>

handlePasswordChange(value) ==
    /\ ~authLoading /\ path = "/admin" /\ ~isAuthenticated
    /\ loginData' = [loginData EXCEPT !.password = value]
    /\ UNCHANGED <<authLoading, isAuthenticated, currentUser, storedUser, path,
                   request, loginError, otherSide>>

\* a handleLogin that compares the user names as typed
handleLoginCaseSensitive ==
    /\ ~authLoading /\ path = "/admin" /\ ~isAuthenticated
    /\ IF \E u \in validUsers :
             u.username = loginData.username /\ u.password = loginData.password
       THEN /\ isAuthenticated' = TRUE
            /\ currentUser' = loginData.username
            /\ loginData' = NoLogin
            /\ loginError' = ""
            /\ storedUser' = loginData.username
       ELSE /\ loginError' = "Usuario o contraseña incorrectos"
            /\ UNCHANGED <<isAuthenticated, currentUser, loginData, storedUser>>
    /\ UNCHANGED <<authLoading, path, request, otherSide>>

\* handleLogin, the login form being on the page
handleLogin ==
    /\ ~authLoading /\ path = "/admin" /\ ~isAuthenticated
    /\ IF \E u \in validUsers :
             /\ LowerName(u.username) = LowerName(loginData.username)
             /\ u.password = loginData.password
       THEN LET user == CHOOSE u \in validUsers :
                           /\ LowerName(u.username) = LowerName(loginData.username)
                           /\ u.password = loginData.password
            IN  /\ isAuthenticated' = TRUE
                /\ currentUser' = user.username
                /\ loginData' = NoLogin
                /\ loginError' = ""
                /\ storedUser' = user.username
       ELSE /\ loginError' = "Usuario o contraseña incorrectos"
            /\ UNCHANGED <<isAuthenticated, currentUser, loginData, storedUser>>
    /\ UNCHANGED <<authLoading, path, request, otherSide>>

\* a handleLogout that leaves the stored login in the browser
handleLogoutKeepsKey ==
    /\ ~authLoading /\ path = "/admin" /\ isAuthenticated
    /\ isAuthenticated' = FALSE
    /\ currentUser' = ""
    /\ UNCHANGED <<authLoading, storedUser, path, request, loginData, loginError,
                   otherSide>>

\* handleLogout, from the administrator view
handleLogout ==
    /\ ~authLoading /\ path = "/admin" /\ isAuthenticated
    /\ isAuthenticated' = FALSE
    /\ currentUser' = ""
    /\ storedUser' = ""
    /\ UNCHANGED <<authLoading, path, request, loginData, loginError, otherSide>>

\* the visitor follows a link or types an address: the page loads anew and the
\* router is constructed again; localStorage stays
Navigate(to) ==
    /\ path' = to
    /\ authLoading' = TRUE
    /\ isAuthenticated' = FALSE
    /\ currentUser' = ""
    /\ loginData' = NoLogin
    /\ loginError' = ""
    /\ UNCHANGED <<storedUser, request, otherSide>>

\* what the router renders: <Routes> with the login for every visitor
RouterElementOpen ==
    IF authLoading THEN "Cargando..."
    ELSE IF path = "/admin" THEN "AdminInterface"
    ELSE "UserInterface"

\* what the router renders
RouterElement ==
    IF authLoading THEN "Cargando..."
    ELSE IF path = "/admin"
         THEN (IF isAuthenticated THEN "AdminInterface" ELSE "LoginForm")
         ELSE "UserInterface"

Models == {"Demo", "Tag", "DemoTag"}
Operations == {"create", "read", "update", "delete"}

\* allow.publicApiKey(): every operation, to whoever holds the API key
publicApiKey == [provider |-> "apiKey", operations |-> Operations]

\* .authorization(...) of each model
authorization == [m \in Models |-> {publicApiKey}]

\* authorizationModes.defaultAuthorizationMode, which generateClient() uses for
\* every caller
defaultAuthorizationMode == "apiKey"

\* the gateway's decision on an operation of a model
Decision(model, operation) ==
    IF \E rule \in authorization[model] :
          rule.provider = defaultAuthorizationMode /\ operation \in rule.operations
    THEN "permitted" ELSE "denied"

\* a page of this session asks the gateway for an operation
GatewayRequest(model, operation) ==
    /\ ~authLoading
    /\ request' = [caller |-> IF isAuthenticated THEN "administrator" ELSE "visitor",
                   model |-> model, operation |-> operation,
                   outcome |-> Decision(model, operation)]
    /\ UNCHANGED <<authLoading, isAuthenticated, currentUser, storedUser, path,
                   loginData, loginError, otherSide>>

\* the first page load of a browser whose storage holds any of StoredUsers
InitAccess ==
    /\ StoreOneEntry
    /\ hasModels \in BOOLEAN
    /\ AppConstructed
    /\ CatalogConstructed
    /\ StreamConstructed
    /\ writeLog = NoWrites
    /\ RouterConstructed
    /\ storedUser \in StoredUsers
    /\ LateConstructed
    /\ rejects = 0
    /\ overlaps = 0
    /\ asked = "none"

NextAccess ==
    \/ RouterMount
    \/ \E value \in Usernames : handleUsernameChange(value)
    \/ \E value \in Passwords : handlePasswordChange(value)
    \/ handleLogin
    \/ handleLogout
    \/ \E to \in Paths : Navigate(to)
    \/ \E model \in Models : \E operation \in Operations :
          GatewayRequest(model, operation)

SpecAccess == InitAccess /\ [][NextAccess]_vars

\* C19: create, update and delete of an Entry, a Tag or an Association are
\* permitted only to an authenticated administrator; read is permitted to any
\* caller, signed in or not.
C19_WriteAuthorization ==
    request # NoRequest =>
        (request.outcome = "permitted" <=>
            (request.operation = "read" \/ request.caller = "administrator"))

\* C20 as stated: /admin renders the administrator view iff the login state is
\* authenticated, and the login form otherwise; / and /demos render the catalog
\* view in every login state.
C20_RoutingGate ==
    /\ path = "/admin" =>
          RouterElement = (IF isAuthenticated THEN "AdminInterface" ELSE "LoginForm")
    /\ path \in {"/", "/demos"} => RouterElement = "UserInterface"

\* C20 as amended: the same, once the router has read the stored login.
C20_RoutingGateOnceLoaded ==
    ~authLoading =>
        /\ path = "/admin" =>
              RouterElement = (IF isAuthenticated THEN "AdminInterface" ELSE "LoginForm")
        /\ path \in {"/", "/demos"} => RouterElement = "UserInterface"

\* an administrator logged in on /admin under a name typed in capitals
C20_Witness ==
    /\ ~authLoading
    /\ path = "/admin"
    /\ isAuthenticated
    /\ currentUser = "rodes"
    /\ loginError = ""
    /\ RouterElement = "AdminInterface"

(***************************************************************************)
(* Claims about the administrator login                                    *)
(***************************************************************************)
\* the allow-listed user the typed name and password belong to, if any: the
\* name in any of its spellings, the password as it is
Spellings(username) ==
    IF username = "rodes" THEN {"rodes", "Rodes", "RODES"} ELSE {"reno", "Reno", "RENO"}

Matching ==
    {u \in validUsers :
        loginData.username \in Spellings(u.username) /\ loginData.password = u.password}

\* C21: a login attempt authenticates iff the typed user name is an allow-listed
\* name up to case and the typed password is that user's password exactly; then
\* isAuthenticated is true, currentUser and the stored item are the allow-list's
\* spelling of the name and the login fields are cleared; otherwise the error
\* line is set and isAuthenticated, currentUser and the stored item stay.
C21_CredentialCheck ==
    [][handleLogin =>
         IF Matching # {}
         THEN /\ isAuthenticated'
              /\ \E u \in Matching : currentUser' = u.username /\ storedUser' = u.username
              /\ loginData' = NoLogin
         ELSE /\ loginError' # ""
              /\ UNCHANGED <<isAuthenticated, currentUser, storedUser>>]_vars

\* reno is logged in: the name can only have been typed in capitals
C21_Witness ==
    /\ isAuthenticated
    /\ ~authLoading
    /\ currentUser = "reno"
    /\ storedUser = "reno"
    /\ loginData = NoLogin
    /\ loginError = ""

\* C28: whenever the administrator view is rendered, the current user is one of
\* the allow-listed user names.
C28_AdminIsAllowListed ==
    RouterElement = "AdminInterface" =>
        currentUser \in {u.username : u \in validUsers}

\* C29: once the stored login has been read, isAuthenticated is true iff the
\* browser holds a non-empty item under demo_catalog_user; handleLogout sets
\* isAuthenticated false, clears currentUser and removes the item.
C29_SessionFlag ==
    [][/\ ~authLoading' => (isAuthenticated' <=> storedUser' # "")
       /\ handleLogout => (~isAuthenticated' /\ currentUser' = "" /\ storedUser' = "")]_vars

\* an administrator was logged in (a request went out in that name) and has
\* logged out
C29_Witness ==
    /\ ~authLoading
    /\ ~isAuthenticated
    /\ storedUser = ""
    /\ path = "/admin"
    /\ request # NoRequest
    /\ request.caller = "administrator"

(***************************************************************************)
(* Claims about the catalog view's empty states and filter tags            *)
(***************************************************************************)
EmptyStateRule ==
    /\ body = "No demos available yet. Check back soon!" <=> demos = <<>>
    /\ body = "No projects match your current filters." <=> demos # <<>>

\* C22 as stated: when the visible count is 0, the page shows the message for an
\* empty catalog iff the local Entry sequence is empty, and the message for
\* filters that match nothing iff it is not.
C22_EmptyStates == Len(getFilteredDemos) = 0 => EmptyStateRule

\* C22 as amended: the same, once the loading indicator is gone.
C22_EmptyStatesOnceLoaded == (~isLoading /\ Len(getFilteredDemos) = 0) => EmptyStateRule

\* a search text that no name of a non-empty catalog contains
C22_Witness ==
    /\ ~isLoading
    /\ demos # <<>>
    /\ searchTerm = <<"b", "b">>
    /\ selectedFilterTags = <<>>
    /\ Len(getFilteredDemos) = 0
    /\ body = "No projects match your current filters."

NoDuplicates(s) == \A i, j \in 1..Len(s) : i # j => s[i] # s[j]

\* C30: a toggle of t selects t if it was not selected and deselects it if it
\* was (so a second toggle of t restores the selected set), and leaves demos,
\* demoTags and searchTerm alone; no toggle and no clearAllFilters leaves an id
\* twice in the selected list.
C30_FilterTagToggle ==
    [][/\ \A t \in TagIds :
            handleFilterTagToggle(t) =>
               /\ Range(selectedFilterTags') =
                     IF t \in Range(selectedFilterTags)
                     THEN Range(selectedFilterTags) \ {t}
                     ELSE Range(selectedFilterTags) \cup {t}
               /\ UNCHANGED <<demos, demoTags, searchTerm>>
       /\ clearAllFilters => selectedFilterTags' = <<>>
       /\ NoDuplicates(selectedFilterTags')]_vars

\* both tags are selected, t2 first, under a search text
C30_Witness ==
    /\ selectedFilterTags = <<"t2", "t1">>
    /\ searchTerm # <<>>
    /\ renders = 0

(***************************************************************************)
(* Claims about the Associations and the edit target (Spec)                *)
(***************************************************************************)

\* C24: starting from a store without duplicates, after any sequence of
\* create, edit and delete workflows, overlapping saves and repeated submits
\* included, no two Associations of the remote store have the same pair of
\* Entry and Tag.
C24_NoDuplicateEdges ==
    \A a \in DemoTag : \A b \in DemoTag :
        (a.demoId = b.demoId /\ a.tagId = b.tagId) => a.id = b.id

\* C26: when an awaited call of a save in edit mode rejects (the update, the
\* list, a delete or a create of an Association), the form stays open in edit
\* mode for the same Entry: editingId still names the Entry the run was
\* submitted for.  Stated for a run with no other run in flight.
C26_FailedEditKeepsTarget ==
    [][\A k \in Slots :
          (SaveRejected(k) /\ flows[k].alone /\ flows[k].editingId # NoId) =>
              (isFormOpen' /\ editingId' = flows[k].editingId)]_vars

(***************************************************************************)
(* Administrator view: the runs of initializeTags (App.tsx 74-101).  The   *)
(* mount effect calls it without awaiting it; under React.StrictMode       *)
(* (main.tsx 13-17) a development build runs the effect of a mount twice, a *)
(* production build once.  Every run is a chain of awaited calls on the    *)
(* Tag table, and the calls of two runs interleave at the gateway.         *)
(***************************************************************************)
tagSide == <<uiVars, remoteVars, adminDemos, adminDemoTags, formVars, flows, budgetVars,
             asked, streamVars, writeLog, accessVars, pristine>>

\* the k-th run of useEffect(() => {...}, []) of App, up to the first await of
\* the initializeTags() it calls
MountStrict(k) ==
    /\ initRuns[k] = NoRun
    /\ \A j \in 1..(k - 1) : initRuns[j] # NoRun
    /\ \/ /\ hasModels
          /\ debugInfo' =
                LogAppend(LogAppend(<<Line("Checking available models...", "")>>,
                                    Line("Available models: ", "Demo, Tag, DemoTag")),
                          Line("Demo and Tag models exist!", ""))
          /\ modelExists' = TRUE
          /\ initRuns' = [initRuns EXCEPT ![k] = [pc |-> "Tag.list", i |-> 0]]
          /\ UNCHANGED adminLoading
       \/ /\ ~hasModels
          /\ debugInfo' =
                LogAppend(LogAppend(<<Line("Checking available models...", "")>>,
                                    Line("Available models: ", "")),
                          Line("Demo or Tag models don't exist yet!", ""))
          /\ modelExists' = FALSE
          /\ adminLoading' = FALSE
          /\ initRuns' = [initRuns EXCEPT ![k] = [pc |-> "done", i |-> 0]]
    /\ UNCHANGED <<Tag, adminTags, tagSide>>

\* const existingTags = await client.models.Tag.list() resolves: the create
\* loop starts when the list is empty, the second list is asked otherwise
TagListed(k) ==
    /\ initRuns[k].pc = "Tag.list"
    /\ initRuns' = [initRuns EXCEPT ![k] =
                       IF Len(Tag) = 0 THEN [pc |-> "Tag.create", i |-> 1]
                       ELSE [pc |-> "Tag.fetch", i |-> 0]]
    /\ UNCHANGED <<Tag, debugInfo, mirrorVars, tagSide>>

\* await client.models.Tag.create({ name: tagName }) resolves
TagCreated(k) ==
    LET r == initRuns[k]
        last == r.i = Len(TagSeq)
    IN
    /\ r.pc = "Tag.create"
    /\ Tag' = Append(Tag, TagSeq[r.i])
    /\ initRuns' = [initRuns EXCEPT ![k] =
                       IF last THEN [pc |-> "Tag.fetch", i |-> 0]
                       ELSE [r EXCEPT !.i = r.i + 1]]
    /\ debugInfo' = IF last THEN LogAppend(debugInfo, Line("Predefined tags created", ""))
                    ELSE debugInfo
    /\ UNCHANGED <<mirrorVars, tagSide>>

\* const allTagsResponse = await client.models.Tag.list() resolves:
\* setAvailableTags
TagsFetched(k) ==
    /\ initRuns[k].pc = "Tag.fetch"
    /\ adminTags' = Tag
    /\ initRuns' = [initRuns EXCEPT ![k] = [pc |-> "done", i |-> 0]]
    /\ UNCHANGED <<Tag, debugInfo, adminLoading, modelExists, tagSide>>

\* an awaited call of initializeTags rejects: the catch block
TagRejected(k) ==
    /\ initRuns[k].pc \in {"Tag.list", "Tag.create", "Tag.fetch"}
    /\ debugInfo' = LogAppend(debugInfo, Line("Error initializing tags: ", "rejected"))
    /\ initRuns' = [initRuns EXCEPT ![k] = [pc |-> "done", i |-> 0]]
    /\ UNCHANGED <<Tag, mirrorVars, tagSide>>

\* the first page load of the administrator view, the Tag table empty, holding
\* one tag or holding the predefined tags
InitTags ==
    /\ StoreOneEntry
    /\ hasModels \in BOOLEAN
    /\ AppConstructed
    /\ CatalogConstructed
    /\ StreamConstructed
    /\ writeLog = NoWrites
    /\ RouterConstructed
    /\ storedUser = ""
    /\ Tag \in {<<>>, <<"t1">>, TagSeq}
    /\ initRuns = [k \in Mounts |-> NoRun]
    /\ pristine = [form |-> FALSE, run |-> FALSE]
    /\ rejects = 0
    /\ overlaps = 0
    /\ asked = "none"

NextTags ==
    \/ \E k \in Mounts : MountStrict(k)
    \/ \E k \in Mounts : TagListed(k)
    \/ \E k \in Mounts : TagCreated(k)
    \/ \E k \in Mounts : TagsFetched(k)
    \/ \E k \in Mounts : TagRejected(k)

SpecTags == InitTags /\ [][NextTags]_vars

Kept(p) ==
    /\ UNCHANGED <<budgetVars, streamVars, writeLog, accessVars, Tag, initRuns>>
    /\ asked' = "none"
    /\ pristine' = p

\* the history of the selection after a step of a save: the end of the save
\* empties the selection and closes the form
AfterStep == [pristine EXCEPT !.form = @ /\ isFormOpen']

NextBusy ==
    \/ Mount /\ Kept(pristine)
    \/ initializeTags /\ Kept(pristine)
    \/ DemoPush /\ Kept(pristine)
    \/ DemoTagPush /\ Kept(pristine)
    \/ openCreateForm /\ Kept([pristine EXCEPT !.form = FALSE])
    \/ \E demo \in Range(adminDemos) :
          formErrors = NoErrors /\ openEditForm(demo)
             /\ Kept([pristine EXCEPT !.form = TRUE])
    \/ \E name \in Fields : \E value \in Typed(name) :
          /\ \A g \in Before(name) : formData[g] # <<>>
          /\ formData[name] = <<>>
          /\ handleChange(name, value)
          /\ Kept(pristine)
    \/ \E tagId \in TagIds :
          /\ \A g \in Fields : formData[g] # <<>>
          /\ handleTagToggle(tagId)
          /\ Kept([pristine EXCEPT !.form = FALSE])
    \/ resetForm /\ Kept([pristine EXCEPT !.form = FALSE])
    \/ /\ Quiet
       /\ FormValid \/ ~modelExists \/ (formData = EmptyForm /\ selectedTags = <<>>)
       /\ handleSubmit
       /\ Kept([pristine EXCEPT !.run = pristine.form /\ flows' # flows])
    \/ \E k \in Slots : SaveUpdated(k) /\ Kept(AfterStep)
    \/ \E k \in Slots : SaveListed(k) /\ Kept(AfterStep)
    \/ \E k \in Slots : SaveTagDeleted(k) /\ Kept(AfterStep)
    \/ \E k \in Slots : SaveCreated(k) /\ Kept(AfterStep)
    \/ \E k \in Slots : SaveTagCreated(k) /\ Kept(AfterStep)

SpecBusy == Init /\ [][NextBusy]_vars

\* C25: whenever the form is closed, editingId is null, every form field is
\* empty and no tag is selected, after any sequence of open-create, open-edit,
\* typing, toggling, cancel and submit interleaved with the completions of the
\* submits in flight.
C25_ClosedFormIsClean ==
    ~isFormOpen => (editingId = NoId /\ formData = EmptyForm /\ selectedTags = <<>>)

\* C27: a save in edit mode whose selection is the one openEditForm set, with
\* no rejected step and no other workflow in flight, leaves the remote tag set
\* of its Entry as it was when the save was submitted.
C27_NoOpEdit ==
    [][\A k \in Slots :
          (SaveCompletesAlone(k) /\ flows[k].editingId # NoId /\ pristine.run) =>
              TagsOf(Of(DemoTag', flows[k].editingId)) =
                 TagsOf(Of(flows[k].before.DemoTag, flows[k].editingId))]_vars
====
